---------------------------- MODULE Spec2Model ----------------------------
(***************************************************************************)
(* TransferMap: the SQLite store of server/index.js (schema, seed block),  *)
(* the query service GET /api/equivalents with normalizeGT, and the search *)
(* state of the React client (client/src/App.jsx).                         *)
(*                                                                         *)
(* Strings whose characters the code inspects (GT course codes, the gt     *)
(* query parameter) are sequences of one-character strings.  Strings that  *)
(* are only compared (school names, external course codes, titles,         *)
(* semesters) are TLA+ strings; their BINARY collation order is Collation. *)
(***************************************************************************)
EXTENDS Integers, Sequences, FiniteSets, TLC

VARIABLES
    db,        \* the SQLite database file: tables and sqlite_sequence
    rc,        \* result code of the last statement run on the store
    req,       \* GET /api/equivalents: the gt query parameter being handled
    res,       \* GET /api/equivalents: the response produced for req
    pc,        \* server process: position in the startup code (seed block)
    loc,       \* server process: gsuId, ksuId, cs1331Id, cs1332Id
    pre,       \* history: the database as the running startup found it
    code,      \* App: useState("CS1331")
    results,   \* App: useState([])
    loading,   \* App: useState(false)
    error,     \* App: useState("")
    inflight,  \* App: the search() calls suspended at an await
    nextReq,   \* history: number of search() calls made so far
    latest     \* history: what the most recent search() call displayed

vars == <<db, rc, req, res, pc, loc, pre, code, results, loading, error,
          inflight, nextReq, latest>>

storeVars  == <<db, rc>>
queryVars  == <<req, res>>
seedVars   == <<pc, loc, pre>>
clientVars == <<code, results, loading, error, inflight, nextReq, latest>>

-----------------------------------------------------------------------------
(* Bounds of the model *)

\* At most MaxRows rows are ever inserted (sum of the sqlite_sequence counters).
MaxRows == 5

\* Longest gt parameter enumerated exhaustively for normalizeGT.
MaxLen == 4

\* At most MaxSearches search() calls are made in the client.
MaxSearches == 3

-----------------------------------------------------------------------------
(* SQL values *)

NULL == "NULL"

Num(n) == [t |-> "real", n |-> n, s |-> ""]
Txt(s) == [t |-> "text", n |-> 0, s |-> s]
NullVal == [t |-> "null", n |-> 0, s |-> ""]

\* Text that SQLite recognises as a well-formed number, with its value.
NumericText == [s \in {"3", "0"} |-> IF s = "3" THEN 3 ELSE 0]

\* Column affinity REAL: a bound number is stored as REAL, text that looks
\* like a number is converted, any other text is stored as TEXT unchanged.
RealAffinity(v) ==
    IF v.t = "text" /\ v.s \in DOMAIN NumericText THEN Num(NumericText[v.s])
    ELSE v

GSU == "Georgia State University"
KSU == "Kennesaw State University"

\* Every compared string of the model, in memcmp (BINARY collation) order.
Collation == <<"CS 2302", "CSC 2510", "CSC 2720", GSU, KSU>>

Rank(s) == IF s = NULL THEN 0 ELSE CHOOSE i \in DOMAIN Collation : Collation[i] = s

\* ORDER BY ... ASC on a TEXT column: NULL first, then BINARY collation.
SqlLeq(a, b) == Rank(a) <= Rank(b)

CS1331 == <<"C", "S", " ", "1", "3", "3", "1">>
CS1332 == <<"C", "S", " ", "1", "3", "3", "2">>

-----------------------------------------------------------------------------
(* The schema: tables, constraints, statements *)

EmptyDb ==
    [School         |-> {},
     GTCourse       |-> {},
     ExternalCourse |-> {},
     Equivalency    |-> {},
     seq            |-> [School |-> 0, GTCourse |-> 0,
                         ExternalCourse |-> 0, Equivalency |-> 0]]

\* Outcome of one statement: the database after it, the result code, and
\* lastInsertRowid.
Ok(d, rowid)  == [db |-> d, rc |-> "OK", rowid |-> rowid]
Fail(d, code_) == [db |-> d, rc |-> code_, rowid |-> 0]

\* UNIQUE constraints of the four tables.
UniqueSchool(d, name) == \A s \in d.School : s.name # name

UniqueGTCourse(d, c) == \A g \in d.GTCourse : g.code # c

UniqueExternalCourse(d, schoolId, c) ==
    \A x \in d.ExternalCourse : ~(x.schoolId = schoolId /\ x.code = c)

\* Variant: the Equivalency table declared without its UNIQUE clause.
NoUniqueEquivalency(d, gtCourseId, schoolId, c) == TRUE

UniqueEquivalency(d, gtCourseId, schoolId, c) ==
    \A e \in d.Equivalency :
        ~(e.gtCourseId = gtCourseId /\ e.schoolId = schoolId
          /\ e.externalCourseCode = c)

\* FOREIGN KEY ... REFERENCES, enforced because of PRAGMA foreign_keys = ON.
FkSchool(d, schoolId) == \E s \in d.School : s.id = schoolId

FkGTCourse(d, gtCourseId) == \E g \in d.GTCourse : g.id = gtCourseId

\* INSERT INTO School(name) VALUES (?)
insSchool(d, name) ==
    IF name = NULL THEN Fail(d, "CONSTRAINT_NOTNULL")
    ELSE IF ~UniqueSchool(d, name) THEN Fail(d, "CONSTRAINT_UNIQUE")
    ELSE LET id == d.seq.School + 1
         IN  Ok([d EXCEPT !.School = @ \cup {[id |-> id, name |-> name]},
                          !.seq.School = id], id)

\* INSERT INTO GTCourse(code, title, creditHours) VALUES (?, ?, ?)
insGT(d, c, title, creditHours) ==
    IF title = NULL \/ creditHours.t = "null" THEN Fail(d, "CONSTRAINT_NOTNULL")
    ELSE IF ~UniqueGTCourse(d, c) THEN Fail(d, "CONSTRAINT_UNIQUE")
    ELSE LET id == d.seq.GTCourse + 1
         IN  Ok([d EXCEPT !.GTCourse = @ \cup
                              {[id |-> id, code |-> c, title |-> title,
                                creditHours |-> RealAffinity(creditHours)]},
                          !.seq.GTCourse = id], id)

\* INSERT INTO ExternalCourse(schoolId, code, title, creditHours) VALUES (?, ?, ?, ?)
insExt(d, schoolId, c, title, creditHours) ==
    IF c = NULL \/ title = NULL \/ creditHours.t = "null"
        THEN Fail(d, "CONSTRAINT_NOTNULL")
    ELSE IF ~UniqueExternalCourse(d, schoolId, c) THEN Fail(d, "CONSTRAINT_UNIQUE")
    ELSE IF ~FkSchool(d, schoolId) THEN Fail(d, "CONSTRAINT_FOREIGNKEY")
    ELSE LET id == d.seq.ExternalCourse + 1
         IN  Ok([d EXCEPT !.ExternalCourse = @ \cup
                              {[id |-> id, schoolId |-> schoolId, code |-> c,
                                title |-> title,
                                creditHours |-> RealAffinity(creditHours)]},
                          !.seq.ExternalCourse = id], id)

\* INSERT INTO Equivalency(gtCourseId, schoolId, externalCourseCode, semester)
\* VALUES (?, ?, ?, ?)
insEq(d, gtCourseId, schoolId, c, semester) ==
    IF c = NULL \/ semester = NULL THEN Fail(d, "CONSTRAINT_NOTNULL")
    ELSE IF ~UniqueEquivalency(d, gtCourseId, schoolId, c)
        THEN Fail(d, "CONSTRAINT_UNIQUE")
    ELSE IF ~(FkGTCourse(d, gtCourseId) /\ FkSchool(d, schoolId))
        THEN Fail(d, "CONSTRAINT_FOREIGNKEY")
    ELSE LET id == d.seq.Equivalency + 1
         IN  Ok([d EXCEPT !.Equivalency = @ \cup
                              {[id |-> id, gtCourseId |-> gtCourseId,
                                schoolId |-> schoolId,
                                externalCourseCode |-> c,
                                semester |-> semester]},
                          !.seq.Equivalency = id], id)

\* Variant: Equivalency.schoolId declared without ON DELETE CASCADE handling,
\* so only ExternalCourse rows go with the School.
CascadeSchoolExternalOnly(d, id) ==
    [d EXCEPT !.ExternalCourse = {x \in @ : x.schoolId # id}]

\* Rows removed with a School row: ON DELETE CASCADE of ExternalCourse.schoolId
\* and Equivalency.schoolId.
CascadeSchool(d, id) ==
    [d EXCEPT !.ExternalCourse = {x \in @ : x.schoolId # id},
              !.Equivalency    = {e \in @ : e.schoolId # id}]

\* Rows removed with a GTCourse row: ON DELETE CASCADE of Equivalency.gtCourseId.
CascadeGTCourse(d, id) ==
    [d EXCEPT !.Equivalency = {e \in @ : e.gtCourseId # id}]

\* DELETE FROM School WHERE id = ?
delSchool(d, id) ==
    Ok(CascadeSchool([d EXCEPT !.School = {s \in @ : s.id # id}], id), 0)

\* DELETE FROM GTCourse WHERE id = ?
delGT(d, id) ==
    Ok(CascadeGTCourse([d EXCEPT !.GTCourse = {g \in @ : g.id # id}], id), 0)

-----------------------------------------------------------------------------
(* normalizeGT *)

Whitespace == {" ", "\t"}
LowerAZ == <<"a","b","c","d","e","f","g","h","i","j","k","l","m",
             "n","o","p","q","r","s","t","u","v","w","x","y","z">>
UpperAZ == <<"A","B","C","D","E","F","G","H","I","J","K","L","M",
             "N","O","P","Q","R","S","T","U","V","W","X","Y","Z">>
Digits == {"0","1","2","3","4","5","6","7","8","9"}

IsSpace(ch) == ch \in Whitespace
IsUpper(ch) == \E i \in DOMAIN UpperAZ : UpperAZ[i] = ch
IsDigit(ch) == ch \in Digits

ToUpperChar(ch) ==
    IF \E i \in DOMAIN LowerAZ : LowerAZ[i] = ch
        THEN UpperAZ[CHOOSE i \in DOMAIN LowerAZ : LowerAZ[i] = ch]
        ELSE ch

\* String.prototype.trim
trim(s) ==
    LET keep == {i \in DOMAIN s : ~IsSpace(s[i])}
    IN  IF keep = {} THEN <<>>
        ELSE SubSeq(s, CHOOSE i \in keep : \A j \in keep : i <= j,
                       CHOOSE i \in keep : \A j \in keep : j <= i)

\* String.prototype.toUpperCase
toUpperCase(s) == [i \in DOMAIN s |-> ToUpperChar(s[i])]

\* Variant: .replace(/\s/, "") without the g flag removes the first
\* whitespace character only.
RemoveFirstWhitespace(s) ==
    LET ws == {i \in DOMAIN s : s[i] \in Whitespace}
    IN  IF ws = {} THEN s
        ELSE LET k == CHOOSE i \in ws : \A j \in ws : i <= j
             IN  SubSeq(s, 1, k - 1) \o SubSeq(s, k + 1, Len(s))

\* .replace(/\s*/g, "")
RemoveWhitespace(s) == SelectSeq(s, LAMBDA ch : ~IsSpace(ch))

\* Length of the longest prefix matched by [A-Z]+
LeadingUpper(s) == Cardinality({i \in DOMAIN s : \A j \in 1..i : IsUpper(s[j])})

\* .replace(/^([A-Z]+)(\d+)/, "$1 $2")
InsertSpace(s) ==
    LET k == LeadingUpper(s)
    IN  IF k >= 1 /\ k < Len(s) /\ IsDigit(s[k + 1])
            THEN SubSeq(s, 1, k) \o <<" ">> \o SubSeq(s, k + 1, Len(s))
            ELSE s

\* normalizeGT(input); an absent gt parameter is the empty string: String(input || "")
normalizeGT(input) ==
    LET raw == toUpperCase(trim(input))
    IN  IF raw = <<>> THEN <<>>
        ELSE InsertSpace(RemoveWhitespace(raw))

-----------------------------------------------------------------------------
(* GET /api/equivalents *)

\* SQL REPLACE(x, ' ', '')
ReplaceSpaces(s) == SelectSeq(s, LAMBDA ch : ch # " ")

\* SELECT ... FROM GTCourse WHERE REPLACE(code, ' ', '') = REPLACE(@c, ' ', '')
GTLookup(d, gtParam) ==
    {g \in d.GTCourse : ReplaceSpaces(g.code) = ReplaceSpaces(gtParam)}

\* The row the LEFT JOIN supplies when no ExternalCourse row matches.
NullExt == [id |-> 0, schoolId |-> 0, code |-> NULL, title |-> NULL,
            creditHours |-> NullVal]

\* Variant: JOIN instead of LEFT JOIN.
InnerJoinExternalCourse(d, e) ==
    {x \in d.ExternalCourse :
        x.schoolId = e.schoolId /\ x.code = e.externalCourseCode}

\* LEFT JOIN ExternalCourse ec ON ec.schoolId = e.schoolId
\*                            AND ec.code = e.externalCourseCode
JoinExternalCourse(d, e) ==
    LET m == {x \in d.ExternalCourse :
                 x.schoolId = e.schoolId /\ x.code = e.externalCourseCode}
    IN  IF m = {} THEN {NullExt} ELSE m

\* FROM Equivalency e JOIN School s JOIN GTCourse gc LEFT JOIN ExternalCourse ec
\* WHERE e.gtCourseId = @gtId
JoinRows(d, gtId) ==
    {j \in [e : d.Equivalency, s : d.School, gc : d.GTCourse,
            ec : d.ExternalCourse \cup {NullExt}] :
        /\ j.e.gtCourseId = gtId
        /\ j.s.id = j.e.schoolId
        /\ j.gc.id = j.e.gtCourseId
        /\ j.ec \in JoinExternalCourse(d, j.e)}

\* ORDER BY s.name, ec.code
OrderByLeq(a, b) ==
    \/ Rank(a.s.name) < Rank(b.s.name)
    \/ (a.s.name = b.s.name /\ SqlLeq(a.ec.code, b.ec.code))

\* Every order of the rows that ORDER BY allows (rows with equal keys come in
\* an order SQL leaves open).
Orderings(R) ==
    {f \in [1..Cardinality(R) -> R] :
        /\ \A i, j \in DOMAIN f : i # j => f[i] # f[j]
        /\ \A i, j \in DOMAIN f : i < j => OrderByLeq(f[i], f[j])}

\* The SELECT list.
Item(j) ==
    [schoolName          |-> j.s.name,
     gtCourseCode        |-> j.gc.code,
     gtCourseName        |-> j.gc.title,
     gtCreditHours       |-> j.gc.creditHours,
     externalCourseCode  |-> j.ec.code,
     externalCourseName  |-> j.ec.title,
     externalCreditHours |-> j.ec.creditHours,
     semester            |-> j.e.semester]

NoResponse == [status |-> 0, gtParam |-> <<>>, looked |-> FALSE,
               items |-> <<>>, total |-> 0, eqIds |-> <<>>]

\* The responses the handler can produce for the query parameter gt.
\* History fields: gtParam (the normalized code), looked (the store was
\* queried with it), eqIds (the Equivalency row behind each item).
GetEquivalents(d, gt) ==
    LET gtParam == normalizeGT(gt)
    IN  IF gtParam = <<>>
            THEN {[NoResponse EXCEPT !.status = 400]}
        ELSE IF GTLookup(d, gtParam) = {}
            THEN {[NoResponse EXCEPT !.status = 200, !.gtParam = gtParam,
                                     !.looked = TRUE]}
        ELSE {[status  |-> 200,
               gtParam |-> gtParam,
               looked  |-> TRUE,
               items   |-> [i \in DOMAIN f |-> Item(f[i])],
               total   |-> Len(f),
               eqIds   |-> [i \in DOMAIN f |-> f[i].e.id]] :
                 f \in UNION {Orderings(JoinRows(d, g.id)) :
                                  g \in GTLookup(d, gtParam)}}

-----------------------------------------------------------------------------
(* Server startup: the seed block *)

OOP == "Object Oriented Programming"
Fall2025 == "Fall 2025"

NoLoc == [gsuId |-> 0, ksuId |-> 0, cs1331Id |-> 0, cs1332Id |-> 0]

SeedLength == 10

\* The i-th statement of the seed block, run on d with the locals l.
SeedStmt(i, d, l) ==
    CASE i = 1  -> insSchool(d, GSU)
      [] i = 2  -> insSchool(d, KSU)
      [] i = 3  -> insGT(d, CS1331, "Introduction to Object Oriented Programming", Num(3))
      [] i = 4  -> insGT(d, CS1332, "Data Structures and Algorithms", Num(3))
      [] i = 5  -> insExt(d, l.gsuId, "CSC 2510", OOP, Num(3))
      [] i = 6  -> insExt(d, l.ksuId, "CS 2302", OOP, Num(3))
      [] i = 7  -> insExt(d, l.gsuId, "CSC 2720", "Data Structures", Num(3))
      [] i = 8  -> insEq(d, l.cs1331Id, l.gsuId, "CSC 2510", Fall2025)
      [] i = 9  -> insEq(d, l.cs1331Id, l.ksuId, "CS 2302", Fall2025)
      [] i = 10 -> insEq(d, l.cs1332Id, l.gsuId, "CSC 2720", Fall2025)

\* The locals after the i-th statement returned lastInsertRowid = rowid.
SeedLoc(i, l, rowid) ==
    CASE i = 1 -> [l EXCEPT !.gsuId = rowid]
      [] i = 2 -> [l EXCEPT !.ksuId = rowid]
      [] i = 3 -> [l EXCEPT !.cs1331Id = rowid]
      [] i = 4 -> [l EXCEPT !.cs1332Id = rowid]
      [] OTHER -> l

\* const seeded = SELECT COUNT(*) AS c FROM GTCourse ... .c > 0
seeded(d) == Cardinality(d.GTCourse) > 0

RECURSIVE RunSeed(_, _, _)
\* The seed block run without interruption from statement i on; a statement
\* that throws ends the process with the rows inserted so far.
RunSeed(i, d, l) ==
    IF i > SeedLength THEN d
    ELSE LET r == SeedStmt(i, d, l)
         IN  IF r.rc # "OK" THEN r.db
             ELSE RunSeed(i + 1, r.db, SeedLoc(i, l, r.rowid))

\* The database an uninterrupted first startup leaves.
SeededDb == IF seeded(EmptyDb) THEN EmptyDb ELSE RunSeed(1, EmptyDb, NoLoc)

Off       == [at |-> "off", i |-> 0]
Listening == [at |-> "listening", i |-> 0]
Crashed   == [at |-> "crashed", i |-> 0]
Seeding(i) == [at |-> "seed", i |-> i]

-----------------------------------------------------------------------------
(* Inputs *)

SchoolNames == {GSU, KSU, NULL}
CS1331NoSpace == <<"C", "S", "1", "3", "3", "1">>
GTCodes     == {CS1331, CS1332, CS1331NoSpace}
ExtCodes    == {"CSC 2510", "CSC 2720"}
Credits     == {Num(3), Num(0), Txt("N/A"), Txt("3"), NullVal}
Titles      == {OOP}
Semesters   == {Fall2025}

TotalSeq(d) ==
    d.seq.School + d.seq.GTCourse + d.seq.ExternalCourse + d.seq.Equivalency

Alphabet == {"c", "S", "1", " ", "\t", "-"}

BoundedInputs == UNION {[1..k -> Alphabet] : k \in 0..MaxLen}

NamedInputs ==
    {<<"C","S","1","3","3","1">>,
     <<"c","s"," ","1","3","3","1">>,
     <<"C","S"," "," ","1","3","3","1">>,
     CS1331,
     <<"1","3","3","1","C","S">>,
     <<"C","S">>,
     <<"1","3","3","1">>,
     <<"C","S","1","3","3","1","L">>,
     <<"C","S","-","1","3","3","1">>}

NormInputs == BoundedInputs \cup NamedInputs

QueryInputs == GTCodes \cup {<<>>}

-----------------------------------------------------------------------------
(* Actions on the store: statements run by a writer on the database file *)

Run(r) ==
    /\ res = NoResponse
    /\ db' = r.db
    /\ rc' = r.rc
    /\ UNCHANGED <<queryVars, seedVars, clientVars>>

CanInsert == TotalSeq(db) < MaxRows

InsertSchool ==
    \E name \in SchoolNames :
        CanInsert /\ Run(insSchool(db, name))

InsertGT(credits) ==
    \E c \in GTCodes, title \in Titles, h \in credits :
        CanInsert /\ Run(insGT(db, c, title, h))

InsertExt(credits) ==
    \E schoolId \in 1..(db.seq.School + 1), c \in ExtCodes,
       title \in Titles, h \in credits :
        CanInsert /\ Run(insExt(db, schoolId, c, title, h))

InsertEq ==
    \E gtCourseId \in 1..(db.seq.GTCourse + 1),
       schoolId \in 1..(db.seq.School + 1),
       c \in ExtCodes, semester \in Semesters :
        CanInsert /\ Run(insEq(db, gtCourseId, schoolId, c, semester))

DeleteSchool ==
    \E s \in db.School : Run(delSchool(db, s.id))

DeleteGT ==
    \E g \in db.GTCourse : Run(delGT(db, g.id))

-----------------------------------------------------------------------------
(* Actions of the query service *)

\* app.get("/api/equivalents", ...) run for the query parameter gt.
Get(gt) ==
    /\ pc = Listening
    /\ res = NoResponse
    /\ req' = gt
    /\ res' \in GetEquivalents(db, gt)
    /\ UNCHANGED <<storeVars, seedVars, clientVars>>

GetQuery == \E gt \in QueryInputs : Get(gt)

GetNorm == \E gt \in NormInputs : Get(gt)

\* The response has been written; the handler has returned.
Sent ==
    /\ res # NoResponse
    /\ req' = <<>>
    /\ res' = NoResponse
    /\ UNCHANGED <<storeVars, seedVars, clientVars>>

-----------------------------------------------------------------------------
(* Actions of server startup *)

\* node index.js: open the database, create the tables if they do not
\* exist, read seeded.
Start ==
    /\ pc = Off
    /\ pre' = db
    /\ loc' = NoLoc
    /\ pc' = IF seeded(db) THEN Listening ELSE Seeding(1)
    /\ UNCHANGED <<storeVars, queryVars, clientVars>>

\* One statement of the seed block; each commits on its own.  A constraint
\* error is thrown out of the module and ends the process.
SeedInsert ==
    /\ pc.at = "seed"
    /\ LET r == SeedStmt(pc.i, db, loc)
       IN  /\ db' = r.db
           /\ rc' = r.rc
           /\ loc' = IF r.rc = "OK" THEN SeedLoc(pc.i, loc, r.rowid) ELSE loc
           /\ pc' = IF r.rc # "OK" THEN Crashed
                    ELSE IF pc.i = SeedLength THEN Listening
                    ELSE Seeding(pc.i + 1)
    /\ UNCHANGED <<pre, queryVars, clientVars>>

\* The process is killed between two seed insertions.
Interrupt ==
    /\ pc.at = "seed"
    /\ pc.i > 1
    /\ pc' = Off
    /\ loc' = NoLoc
    /\ UNCHANGED <<pre, storeVars, queryVars, clientVars>>

\* The server is stopped, or its crashed process is gone.
Stop ==
    /\ pc \in {Listening, Crashed}
    /\ pc' = Off
    /\ loc' = NoLoc
    /\ UNCHANGED <<pre, storeVars, queryVars, clientVars>>

\* A writer populates School while the server is not running.
WriterSchool ==
    /\ pc = Off
    /\ InsertSchool

\* A writer populates GTCourse while the server is not running.
WriterGT ==
    /\ pc = Off
    /\ InsertGT({Num(3)})

-----------------------------------------------------------------------------
(* Actions of the client: App *)

ErrorMessage ==
    "Could not load results. Make sure the server at port 5175 is running."

CodeInputs == {<<"C","S","1","3","3","1">>, CS1332, <<>>}

\* onChange={e => setCode(e.target.value)}
Type ==
    \E c \in CodeInputs :
        /\ code' = c
        /\ UNCHANGED <<results, loading, error, inflight, nextReq, latest>>
        /\ UNCHANGED <<storeVars, queryVars, seedVars>>

\* search() up to its first await: the three setters, then fetch is issued
\* for the code of this render.
search ==
    /\ nextReq < MaxSearches
    /\ loading' = TRUE
    /\ error' = ""
    /\ results' = <<>>
    /\ inflight' = inflight \cup {[id |-> nextReq + 1, q |-> code]}
    /\ nextReq' = nextReq + 1
    /\ latest' = [results |-> <<>>, error |-> ""]
    /\ UNCHANGED code
    /\ UNCHANGED <<storeVars, queryVars, seedVars>>

\* <button onClick={search} disabled={loading}>
ClickSearch == ~loading /\ search

\* onKeyDown: if (e.key === "Enter") search()
PressEnter == search

\* The awaits of a suspended search() complete with an ok response:
\* setResults(data.items || []), then finally setLoading(false).
ResponseOk ==
    \E r \in inflight : \E reply \in GetEquivalents(SeededDb, r.q) :
        /\ reply.status = 200
        /\ results' = reply.items
        /\ loading' = FALSE
        /\ inflight' = inflight \ {r}
        /\ latest' = IF r.id = nextReq
                         THEN [results |-> reply.items, error |-> ""]
                         ELSE latest
        /\ UNCHANGED <<code, error, nextReq>>
        /\ UNCHANGED <<storeVars, queryVars, seedVars>>

\* fetch rejects, or the response is not ok (throw new Error): catch does
\* setError(...), then finally setLoading(false).
ResponseFail ==
    \E r \in inflight :
        /\ error' = ErrorMessage
        /\ loading' = FALSE
        /\ inflight' = inflight \ {r}
        /\ latest' = IF r.id = nextReq
                         THEN [results |-> <<>>, error |-> ErrorMessage]
                         ELSE latest
        /\ UNCHANGED <<code, results, nextReq>>
        /\ UNCHANGED <<storeVars, queryVars, seedVars>>

-----------------------------------------------------------------------------
(* Specifications *)

InitClient ==
    /\ code = <<"C","S","1","3","3","1">>
    /\ results = <<>>
    /\ loading = FALSE
    /\ error = ""
    /\ inflight = {}
    /\ nextReq = 0
    /\ latest = [results |-> <<>>, error |-> ""]

InitIdle ==
    /\ rc = "OK"
    /\ req = <<>>
    /\ res = NoResponse
    /\ loc = NoLoc
    /\ InitClient

\* The store under a writer: any sequence of insertions and deletions.
Init ==
    /\ db = EmptyDb
    /\ pre = EmptyDb
    /\ pc = Off
    /\ InitIdle

Next ==
    \/ InsertSchool
    \/ InsertGT(Credits)
    \/ InsertExt(Credits)
    \/ InsertEq
    \/ DeleteSchool
    \/ DeleteGT

Spec == Init /\ [][Next]_vars

\* The query service running on a store that a writer fills.
InitQuery ==
    /\ db = EmptyDb
    /\ pre = EmptyDb
    /\ pc = Listening
    /\ InitIdle

NextQuery ==
    \/ InsertSchool
    \/ InsertGT({Num(3)})
    \/ InsertExt({Num(3)})
    \/ InsertEq
    \/ GetQuery
    \/ Sent

SpecQuery == InitQuery /\ [][NextQuery]_vars

\* The query service running on the seeded store, for every gt parameter.
InitNorm ==
    /\ db = SeededDb
    /\ pre = EmptyDb
    /\ pc = Listening
    /\ InitIdle

NextNorm ==
    \/ GetNorm
    \/ Sent

SpecNorm == InitNorm /\ [][NextNorm]_vars

\* Server startups, completed or interrupted, on one database file.
InitSeed == Init

NextSeed ==
    \/ Start
    \/ SeedInsert
    \/ Interrupt
    \/ Stop
    \/ WriterSchool
    \/ WriterGT

SpecSeed == InitSeed /\ [][NextSeed]_vars

\* The client: searches submitted and responses arriving in any order.
InitApp == InitNorm

NextApp ==
    \/ Type
    \/ ClickSearch
    \/ PressEnter
    \/ ResponseOk
    \/ ResponseFail

\* Every fetch settles: the promise resolves or rejects.
SpecApp ==
    /\ InitApp
    /\ [][NextApp]_vars
    /\ WF_vars(ResponseOk \/ ResponseFail)

-----------------------------------------------------------------------------
(* Properties of the store (Spec) *)

Tables(d) == <<d.School, d.GTCourse, d.ExternalCourse, d.Equivalency>>

NoDuplicateRows(d) ==
    /\ \A a, b \in d.School : a.name = b.name => a = b
    /\ \A a, b \in d.GTCourse : a.code = b.code => a = b
    /\ \A a, b \in d.ExternalCourse :
           (a.schoolId = b.schoolId /\ a.code = b.code) => a = b
    /\ \A a, b \in d.Equivalency :
           (a.gtCourseId = b.gtCourseId /\ a.schoolId = b.schoolId
            /\ a.externalCourseCode = b.externalCourseCode) => a = b

Refused(r, d) == r.rc # "OK" /\ r.db = d

DuplicatesRefused(d) ==
    /\ \A a \in d.School : Refused(insSchool(d, a.name), d)
    /\ \A a \in d.GTCourse : \A h \in Credits :
           Refused(insGT(d, a.code, OOP, h), d)
    /\ \A a \in d.ExternalCourse : \A h \in Credits :
           Refused(insExt(d, a.schoolId, a.code, OOP, h), d)
    /\ \A a \in d.Equivalency : \A sem \in Semesters \cup {"Spring 2026"} :
           Refused(insEq(d, a.gtCourseId, a.schoolId, a.externalCourseCode, sem), d)

\* C1: in every reachable store state no two School rows share a name, no
\* two GTCourse rows a code, no two ExternalCourse rows (schoolId, code), no
\* two Equivalency rows (gtCourseId, schoolId, externalCourseCode); and an
\* insertion repeating the key of a stored row is refused and leaves the
\* store unchanged.
C1_Unique == NoDuplicateRows(db) /\ DuplicatesRefused(db)

\* A duplicate insertion has just been refused on a store holding rows in
\* all four tables.
C1_Witness ==
    /\ rc = "CONSTRAINT_UNIQUE"
    /\ \A i \in 1..4 : Tables(db)[i] # {}

ParentsExist(d) ==
    /\ \A x \in d.ExternalCourse : \E s \in d.School : s.id = x.schoolId
    /\ \A e \in d.Equivalency :
           /\ \E s \in d.School : s.id = e.schoolId
           /\ \E g \in d.GTCourse : g.id = e.gtCourseId

MissingParentRefused(d) ==
    /\ \A sid \in 1..(d.seq.School + 1), c \in ExtCodes, h \in Credits :
           (\A s \in d.School : s.id # sid)
               => Refused(insExt(d, sid, c, OOP, h), d)
    /\ \A gid \in 1..(d.seq.GTCourse + 1), sid \in 1..(d.seq.School + 1),
          c \in ExtCodes :
           ((\A s \in d.School : s.id # sid) \/ (\A g \in d.GTCourse : g.id # gid))
               => Refused(insEq(d, gid, sid, c, Fall2025), d)

DeleteCascades(d) ==
    /\ \A s \in d.School :
           LET r == delSchool(d, s.id)
           IN  /\ r.rc = "OK"
               /\ r.db.School = d.School \ {s}
               /\ r.db.GTCourse = d.GTCourse
               /\ r.db.ExternalCourse = d.ExternalCourse \
                      {x \in d.ExternalCourse : x.schoolId = s.id}
               /\ r.db.Equivalency = d.Equivalency \
                      {e \in d.Equivalency : e.schoolId = s.id}
    /\ \A g \in d.GTCourse :
           LET r == delGT(d, g.id)
           IN  /\ r.rc = "OK"
               /\ r.db.GTCourse = d.GTCourse \ {g}
               /\ r.db.School = d.School
               /\ r.db.ExternalCourse = d.ExternalCourse
               /\ r.db.Equivalency = d.Equivalency \
                      {e \in d.Equivalency : e.gtCourseId = g.id}

\* C2: in every reachable store state every Equivalency row's gtCourseId and
\* schoolId and every ExternalCourse row's schoolId identify an existing
\* row; an insertion naming a missing parent is refused; deleting a School
\* or GTCourse succeeds and removes exactly the rows that reference it.
C2_ReferentialIntegrity ==
    ParentsExist(db) /\ MissingParentRefused(db) /\ DeleteCascades(db)

\* A School that had an ExternalCourse and an Equivalency has been deleted,
\* and both dependents are gone while the GTCourse remains.
C2_Witness ==
    /\ rc = "OK"
    /\ db.seq.School = 1 /\ db.School = {}
    /\ db.seq.ExternalCourse = 1 /\ db.ExternalCourse = {}
    /\ db.seq.Equivalency = 1 /\ db.Equivalency = {}
    /\ db.GTCourse # {}

\* C7: every GTCourse and ExternalCourse row has a creditHours that is a
\* real number strictly greater than 0.
C7_CreditHoursPositive ==
    \A x \in db.GTCourse \cup db.ExternalCourse :
        x.creditHours.t = "real" /\ x.creditHours.n > 0

-----------------------------------------------------------------------------
(* Properties of course-code normalization (SpecNorm) *)

\* The input with all whitespace removed and every letter uppercased.
Squeezed(s) == SelectSeq([i \in DOMAIN s |-> ToUpperChar(s[i])],
                         LAMBDA ch : ch \notin Whitespace)

LettersOf(s) == SelectSeq(s, IsUpper)
DigitsOf(s)  == SelectSeq(s, IsDigit)

\* A non-empty run of letters followed by a non-empty run of digits.
LettersThenDigits(s) ==
    /\ LettersOf(s) # <<>>
    /\ DigitsOf(s) # <<>>
    /\ s = LettersOf(s) \o DigitsOf(s)

Handled == res.status # 0

\* C3: for every gt parameter that, with whitespace removed and uppercased,
\* is letters followed by digits, the normalized code is those letters, one
\* space, those digits; "CS1331", "cs 1331" and "CS  1331" normalize to
\* "CS 1331"; and normalizing the normalized code returns it unchanged.
C3_Normalize ==
    Handled =>
        /\ LettersThenDigits(Squeezed(req)) =>
               /\ res.gtParam = LettersOf(Squeezed(req)) \o <<" ">>
                                    \o DigitsOf(Squeezed(req))
               /\ normalizeGT(res.gtParam) = res.gtParam
        /\ req \in {<<"C","S","1","3","3","1">>,
                    <<"c","s"," ","1","3","3","1">>,
                    <<"C","S"," "," ","1","3","3","1">>}
               => res.gtParam = CS1331

\* "CS  1331" (two spaces) has been handled and came out as "CS 1331".
C3_Witness ==
    /\ req = <<"C","S"," "," ","1","3","3","1">>
    /\ res.status = 200
    /\ res.gtParam = <<"C","S"," ","1","3","3","1">>

\* C4: a gt parameter that, with whitespace removed and uppercased, is not
\* letters followed by digits is rejected: no normalized code is returned
\* for it and the store is not queried with it.
C4_MalformedRejected ==
    (Handled /\ ~LettersThenDigits(Squeezed(req))) =>
        /\ res.status = 400
        /\ res.gtParam = <<>>
        /\ ~res.looked

-----------------------------------------------------------------------------
(* Properties of GET /api/equivalents (SpecQuery) *)

\* Canonical form "PREFIX NNNN": letters, one space, digits.
Canonical(c) ==
    /\ LettersThenDigits(Squeezed(c))
    /\ c = LettersOf(Squeezed(c)) \o <<" ">> \o DigitsOf(Squeezed(c))

CanonicalStore(d) == \A g \in d.GTCourse : Canonical(g.code)

EqRow(id) == CHOOSE e \in db.Equivalency : e.id = id
SchoolRow(id) == CHOOSE s \in db.School : s.id = id

\* The Equivalency rows of the GT course stored under code c.
EquivalenciesOf(d, c) ==
    {e \in d.Equivalency : \E g \in d.GTCourse : g.code = c /\ g.id = e.gtCourseId}

Answered == res.status = 200

\* C5: on a store whose GTCourse codes are canonical, the response to a
\* stored GT course code has exactly one item per Equivalency row of that
\* course, none missing, none repeated, none of another course, and total
\* is the number of those rows; with one School, GTCourse "CS 1331",
\* ExternalCourse "CSC 2510" and one Equivalency the query for "CS 1331"
\* returns exactly that one item.
C5_OneItemPerEquivalency ==
    (Answered /\ CanonicalStore(db) /\ \E g \in db.GTCourse : g.code = req) =>
        LET want == EquivalenciesOf(db, req)
        IN  /\ res.total = Cardinality(want)
            /\ Len(res.items) = res.total
            /\ Len(res.eqIds) = res.total
            /\ {res.eqIds[i] : i \in DOMAIN res.eqIds} = {e.id : e \in want}
            /\ \A i \in DOMAIN res.items :
                   /\ res.items[i].gtCourseCode = req
                   /\ res.items[i].schoolName =
                          SchoolRow(EqRow(res.eqIds[i]).schoolId).name
                   /\ res.items[i].semester = EqRow(res.eqIds[i]).semester
            /\ (/\ Cardinality(db.School) = 1
                /\ db.GTCourse = {[id |-> 1, code |-> CS1331, title |-> OOP,
                                   creditHours |-> Num(3)]}
                /\ \E x \in db.ExternalCourse :
                       db.ExternalCourse = {x} /\ x.code = "CSC 2510"
                /\ \E e \in db.Equivalency :
                       /\ db.Equivalency = {e}
                       /\ e.externalCourseCode = "CSC 2510"
                       /\ \E x \in db.ExternalCourse : x.schoolId = e.schoolId)
               => /\ res.total = 1
                  /\ res.items[1].externalCourseCode = "CSC 2510"
                  /\ res.items[1].gtCourseCode = CS1331

\* The query for "CS 1331" has been answered with two items, one of them
\* for an Equivalency whose external course has no ExternalCourse row.
C5_Witness ==
    /\ Answered
    /\ req = CS1331
    /\ CanonicalStore(db)
    /\ res.total = 2
    /\ \E i \in DOMAIN res.items : res.items[i].externalCourseName = NULL
    /\ \E i \in DOMAIN res.items : res.items[i].externalCourseName = OOP

ItemKeyLeq(i, j) ==
    LET a == EqRow(res.eqIds[i])
        b == EqRow(res.eqIds[j])
    IN  \/ Rank(res.items[i].schoolName) < Rank(res.items[j].schoolName)
        \/ /\ res.items[i].schoolName = res.items[j].schoolName
           /\ Rank(a.externalCourseCode) <= Rank(b.externalCourseCode)

\* C6: the items are ordered by school name and, among items of the same
\* school, by the external course code of the Equivalency.
C6_Ordered ==
    Answered => \A i, j \in DOMAIN res.items : i < j => ItemKeyLeq(i, j)

\* C8: every item reports as externalCourseCode the external course code
\* stored on its Equivalency row.
C8_ReportsEquivalencyCode ==
    Answered =>
        \A i \in DOMAIN res.items :
            res.items[i].externalCourseCode
                = EqRow(res.eqIds[i]).externalCourseCode

-----------------------------------------------------------------------------
(* Properties of server startup (SpecSeed) *)

\* Every seed row is present (the UNIQUE constraints make it exactly once).
SeedPresent(d) ==
    \E gsu, ksu \in d.School : \E c1, c2 \in d.GTCourse :
        /\ gsu.name = GSU /\ ksu.name = KSU
        /\ c1.code = CS1331 /\ c2.code = CS1332
        /\ \A k \in {<<gsu, "CSC 2510">>, <<ksu, "CS 2302">>, <<gsu, "CSC 2720">>} :
               \E x \in d.ExternalCourse : x.schoolId = k[1].id /\ x.code = k[2]
        /\ \A k \in {<<c1, gsu, "CSC 2510">>, <<c1, ksu, "CS 2302">>,
                     <<c2, gsu, "CSC 2720">>} :
               \E e \in d.Equivalency :
                   /\ e.gtCourseId = k[1].id
                   /\ e.schoolId = k[2].id
                   /\ e.externalCourseCode = k[3]

\* C9: startup finishes without a constraint violation, and once it has
\* finished the store holds every seed row exactly once or is the store
\* that startup found.
C9_SeedIdempotent ==
    /\ pc # Crashed
    /\ pc = Listening => (SeedPresent(db) \/ db = pre)

-----------------------------------------------------------------------------
(* Properties of the client (SpecApp) *)

\* C10: the loading flag is true whenever a search is still in flight, and
\* once none is in flight the displayed results and error are those of the
\* most recently submitted search.
C10_LatestSearchShown ==
    /\ inflight # {} => loading
    /\ (inflight = {} /\ nextReq > 0) =>
           (results = latest.results /\ error = latest.error)

=============================================================================
